---- MODULE Spec2Model ----
(***************************************************************************)
(* Content lifecycle of the paste/file-drop worker (src/src/worker.ts).    *)
(* The KV namespace env.METADATA is modelled as two maps, one per key      *)
(* prefix ("meta:" + id and "content:" + id).  A key that is absent is     *)
(* the empty tuple, a key that is present is a one-element tuple holding   *)
(* its value, so that an empty stored string differs from a missing key.   *)
(***************************************************************************)
EXTENDS Integers, Sequences, FiniteSets, TLC

\* ------------------------------------------------------------------ bounds
MaxTime == 2
MaxCount == 2

\* ------------------------------------------------------ values and inputs
None == <<>>
Some(x) == <<x>>

Ids == {"a", "b"}
Types == {"text", "subscription"}
Contents == {"", "http://up", "data"}
Transports == {"multipart", "json"}
Routes == {"raw", "sub"}
Mimes == {"", "text/plain", "application/pdf", "image/png"}

\* Upload requests.  genId is the value generateId() returns when the request
\* carries no customSlug.  Identifier "a" receives the combinations of the
\* lifecycle fields through customSlug uploads; uploads under a generated id
\* and uploads to identifier "b" store plain text records, which is enough
\* for overwriting and for the operations that touch several records.
RequestsA ==
  {r \in [transport : Transports, slug : {Some("a")}, genId : {"a"},
           mime : {"text/plain"}, oversize : {FALSE},
           type : Types, content : Contents, burnAfterRead : BOOLEAN,
           expiresIn : {None, Some(-1), Some(1)},
           maxDownloads : {None, Some(0), Some(1), Some(2)}] :
      /\ r.transport = "multipart" =>
           (r.maxDownloads = Some(0) /\ r.type = "text" /\ r.content = "data")
      /\ r.type = "text" => r.content # "http://up"
      /\ r.type = "subscription" => r.content # ""
      /\ r.maxDownloads = Some(2) =>
           (r.type = "text" /\ r.content = "data" /\ r.expiresIn = None)}

RequestsGen ==
  [transport : {"json"}, slug : {None}, genId : Ids,
   mime : {"text/plain"}, oversize : {FALSE},
   type : {"text"}, content : {"data"}, burnAfterRead : {TRUE},
   expiresIn : {None, Some(0)}, maxDownloads : {None}]

RequestsB ==
  [transport : {"json"}, slug : {Some("b")}, genId : {"b"},
   mime : {"text/plain"}, oversize : {FALSE},
   type : {"text"}, content : {"data"}, burnAfterRead : {TRUE},
   expiresIn : {None, Some(1)}, maxDownloads : {None}]

UploadRequests == RequestsA \cup RequestsGen \cup RequestsB

VARIABLES meta, content, now, resp, delivered, inflight

vars == <<meta, content, now, resp, delivered, inflight>>

\* ------------------------------------------------------- pure helpers
\* JavaScript truthiness of an optional number: null, NaN and 0 are falsy.
TruthyNum(o) == o # None /\ o[1] # 0

\* content.startsWith("http")
StartsWithHttp(s) == s = "http://up"

\* `expiresIn ? new Date(Date.now() + expiresIn * 3600 * 1000) : null`,
\* the clock counted in hours.
ComputeExpiresAt(expiresIn, t) ==
  IF TruthyNum(expiresIn) THEN Some(t + expiresIn[1]) ELSE None

\* multipart keeps parseInt of a present field (0 included); a JSON body
\* goes through `body.maxDownloads || null`, which turns 0 into null.
StoredMaxDownloads(transport, input) ==
  IF transport = "multipart" THEN input
  ELSE IF TruthyNum(input) THEN input ELSE None

\* `mime.startsWith(prefix)` on the content types of the model
MimeStartsWith(mime, prefix) ==
  \/ prefix = "text/" /\ mime = "text/plain"
  \/ prefix = "image/" /\ mime = "image/png"

\* isAllowedFile
isAllowedFile(mime) ==
  ~(MimeStartsWith(mime, "image/") \/ MimeStartsWith(mime, "video/")
      \/ MimeStartsWith(mime, "audio/"))

\* `mime = file.type || mime` (multipart), `body.contentType || "text/plain"`
StoredMime(transport, mime) ==
  IF mime # "" THEN mime
  ELSE IF transport = "multipart" THEN "application/octet-stream"
  ELSE "text/plain"

\* btoa on the payloads of the model
Btoa(s) ==
  CASE s = "" -> ""
    [] s = "data" -> "ZGF0YQ=="
    [] s = "http://up" -> "aHR0cDovL3Vw"
    [] s = "hi!" -> "aGkh"

\* atob accepts a string made of base64 characters only; "data" is one.
ValidBase64(s) == s \in {"", "ZGF0YQ==", "aHR0cDovL3Vw", "aGkh", "data"}

\* atob; the three bytes that "data" decodes to are 0x75 0xAB 0x5A.
Atob(s) ==
  CASE s = "" -> ""
    [] s = "ZGF0YQ==" -> "data"
    [] s = "aHR0cDovL3Vw" -> "http://up"
    [] s = "aGkh" -> "hi!"
    [] s = "data" -> "<75 AB 5A>"

\* multipart stores btoa of the file's bytes, a JSON body stores
\* body.content as it is.
StoredContent(transport, payload) ==
  IF transport = "multipart" THEN Btoa(payload) ELSE payload

\* The first failing check of the multipart branch; the JSON branch has none.
UploadRejection(r) ==
  IF r.transport = "multipart" /\ r.oversize THEN "too large"
  ELSE IF r.transport = "multipart" /\ ~isAllowedFile(r.mime) THEN "blocked"
  ELSE ""

NewMeta(type, contentType, burn, expiresAt, maxDl) ==
  [type |-> type, contentType |-> contentType, burnAfterRead |-> burn,
   expiresAt |-> expiresAt, maxDownloads |-> maxDl, downloadCount |-> 0]

\* The metadata handleUpload builds from a request at time t.
MetaOf(r, t) ==
  NewMeta(r.type, StoredMime(r.transport, r.mime), r.burnAfterRead,
          ComputeExpiresAt(r.expiresIn, t),
          StoredMaxDownloads(r.transport, r.maxDownloads))

\* `meta.expiresAt && new Date(meta.expiresAt) < new Date()`
Expired(m, t) == m.expiresAt # None /\ m.expiresAt[1] < t

\* `meta.maxDownloads && meta.downloadCount >= meta.maxDownloads`
LimitReached(m) ==
  TruthyNum(m.maxDownloads) /\ m.downloadCount >= m.maxDownloads[1]

\* `if (!content)`: a missing key and an empty stored string are both falsy.
NoContent(c) == c = None \/ c[1] = ""

\* Increment with the addition lost.
IncrementNoAdd(m) == [m EXCEPT !.downloadCount = m.downloadCount]

\* `meta.downloadCount = (meta.downloadCount || 0) + 1`
Increment(m) == [m EXCEPT !.downloadCount = m.downloadCount + 1]

\* The part of handleSub after the store update: a subscription record whose
\* content is a URL is fetched upstream; everything else is returned as is.
\* /raw returns the stored string for a text/ content type and atob of it
\* otherwise; atob throws on a string that is not base64 and the exception
\* is not caught (status 500).
DeliverStatus(route, m, c, upstreamOk) ==
  IF route = "sub"
  THEN IF m.type = "subscription" /\ StartsWithHttp(c)
       THEN IF upstreamOk THEN 200 ELSE 502
       ELSE 200
  ELSE IF MimeStartsWith(m.contentType, "text/") \/ ValidBase64(c)
       THEN 200 ELSE 500

\* The body of a 200 response; "feed" is the text the upstream returned.
DeliverBody(route, m, c) ==
  IF route = "sub"
  THEN IF m.type = "subscription" /\ StartsWithHttp(c) THEN "feed" ELSE c
  ELSE IF MimeStartsWith(m.contentType, "text/") THEN c ELSE Atob(c)

StatusReason(st) ==
  IF st = 200 THEN "" ELSE IF st = 502 THEN "upstream" ELSE "exception"

Response(op, id, status, reason) ==
  [op |-> op, id |-> id, status |-> status, reason |-> reason,
   seq |-> 1 - resp.seq]

\* The response to an upload, with the fields of the request it answers.
UploadResponse(r, id, status, reason) ==
  Response("upload", id, status, reason)
    @@ [mime |-> r.mime, oversize |-> r.oversize,
        payload |-> IF status = 200 THEN r.content ELSE ""]

\* The response to a read, with its body ("" unless the status is 200).
ReadResponse(op, id, status, reason, body) ==
  Response(op, id, status, reason) @@ [body |-> body]

\* ------------------------------------------------------------------ Init
Init ==
  /\ meta = [i \in Ids |-> None]
  /\ content = [i \in Ids |-> None]
  /\ now = 0
  /\ resp = [op |-> "init", id |-> "-", status |-> 0, reason |-> "", seq |-> 0]
  /\ delivered = [i \in Ids |-> 0]
  /\ inflight = <<>>

\* --------------------------------------------------------------- actions
Tick ==
  /\ now < MaxTime
  /\ now' = now + 1
  /\ UNCHANGED <<meta, content, resp, delivered, inflight>>

\* Upload without the lookup of the customSlug.
handleUploadNoSlugCheck(r) ==
  LET id == IF r.slug # None THEN r.slug[1] ELSE r.genId IN
  /\ IF UploadRejection(r) # ""
     THEN /\ resp' = UploadResponse(r, "-", 400, UploadRejection(r))
          /\ UNCHANGED <<meta, content, delivered>>
     ELSE /\ content' = [content EXCEPT ![id] =
                           Some(StoredContent(r.transport, r.content))]
          /\ meta' = [meta EXCEPT ![id] = Some(MetaOf(r, now))]
          /\ delivered' = [delivered EXCEPT ![id] = 0]
          /\ resp' = UploadResponse(r, id, 200,
                 IF r.slug # None THEN "custom slug" ELSE "generated id")
  /\ UNCHANGED <<now, inflight>>

\* handleUpload.  A generated id is not checked against the store; only a
\* customSlug is.  The reason of an accepted upload records which of the two
\* `const id = customSlug || generateId()` chose.
handleUpload(r) ==
  LET id == IF r.slug # None THEN r.slug[1] ELSE r.genId IN
  /\ IF UploadRejection(r) # ""
     THEN /\ resp' = UploadResponse(r, "-", 400, UploadRejection(r))
          /\ UNCHANGED <<meta, content, delivered>>
     ELSE IF r.slug # None /\ meta[id] # None
     THEN /\ resp' = UploadResponse(r, id, 400, "slug exists")
          /\ UNCHANGED <<meta, content, delivered>>
     ELSE /\ content' = [content EXCEPT ![id] =
                           Some(StoredContent(r.transport, r.content))]
          /\ meta' = [meta EXCEPT ![id] = Some(MetaOf(r, now))]
          /\ delivered' = [delivered EXCEPT ![id] = 0]
          /\ resp' = UploadResponse(r, id, 200,
                 IF r.slug # None THEN "custom slug" ELSE "generated id")
  /\ UNCHANGED <<now, inflight>>

\* Deletion that forgets the content key.
DeleteMetaOnly(id) ==
  /\ meta' = [meta EXCEPT ![id] = None]
  /\ UNCHANGED content

\* `await env.METADATA.delete("meta:" + id);
\*  await env.METADATA.delete("content:" + id);` with no request in between
DeleteRecord(id) ==
  /\ meta' = [meta EXCEPT ![id] = None]
  /\ content' = [content EXCEPT ![id] = None]

\* A read of id gets past every check and reaches the store update.
Delivers(id) ==
  /\ meta[id] # None
  /\ ~Expired(meta[id][1], now)
  /\ ~LimitReached(meta[id][1])
  /\ ~NoContent(content[id])

\* handleRaw and handleSub share everything up to the store update.
Read(route, id, upstreamOk) ==
  /\ Delivers(id) => meta[id][1].downloadCount < MaxCount
  /\ IF meta[id] = None
     THEN /\ resp' = ReadResponse(route, id, 404, "not found", "")
          /\ UNCHANGED <<meta, content, delivered>>
     ELSE LET m == meta[id][1] IN
       IF Expired(m, now)
       THEN /\ DeleteRecord(id)
            /\ resp' = ReadResponse(route, id, 410, "expired", "")
            /\ UNCHANGED delivered
       ELSE IF LimitReached(m)
       THEN /\ resp' = ReadResponse(route, id, 410, "limit", "")
            /\ UNCHANGED <<meta, content, delivered>>
       ELSE IF NoContent(content[id])
       THEN /\ resp' = ReadResponse(route, id, 404, "no content", "")
            /\ UNCHANGED <<meta, content, delivered>>
       ELSE LET m2 == Increment(m)
                st == DeliverStatus(route, m2, content[id][1], upstreamOk)
            IN /\ IF m2.burnAfterRead
                  THEN DeleteRecord(id)
                  ELSE /\ meta' = [meta EXCEPT ![id] = Some(m2)]
                       /\ UNCHANGED content
               /\ resp' = ReadResponse(route, id, st, StatusReason(st),
                     IF st = 200
                     THEN DeliverBody(route, m2, content[id][1]) ELSE "")
               /\ delivered' = [delivered EXCEPT ![id] =
                                  IF st = 200 THEN @ + 1 ELSE @]
  /\ UNCHANGED <<now, inflight>>

handleRaw(id) == Read("raw", id, TRUE)

handleSub(id, upstreamOk) == Read("sub", id, upstreamOk)

\* Admin delete that removes the content key only.
handleAdminDeleteContentOnly(id, auth) ==
  /\ IF ~auth
     THEN /\ resp' = Response("delete", id, 401, "unauthorized")
          /\ UNCHANGED <<meta, content>>
     ELSE /\ content' = [content EXCEPT ![id] = None]
          /\ resp' = Response("delete", id, 200, "")
          /\ UNCHANGED meta
  /\ UNCHANGED <<now, delivered, inflight>>

handleAdminDelete(id, auth) ==
  /\ IF ~auth
     THEN /\ resp' = Response("delete", id, 401, "unauthorized")
          /\ UNCHANGED <<meta, content>>
     ELSE /\ DeleteRecord(id)
          /\ resp' = Response("delete", id, 200, "")
  /\ UNCHANGED <<now, delivered, inflight>>

handleAdminBatchDelete(ids, auth) ==
  /\ IF ~auth
     THEN /\ resp' = Response("batch-delete", "-", 401, "unauthorized")
          /\ UNCHANGED <<meta, content>>
     ELSE /\ meta' = [i \in Ids |-> IF i \in ids THEN None ELSE meta[i]]
          /\ content' = [i \in Ids |-> IF i \in ids THEN None ELSE content[i]]
          /\ resp' = Response("batch-delete", "-", 200, "")
  /\ UNCHANGED <<now, delivered, inflight>>

\* cleanupExpiredFiles behind handleAdminCleanup
ExpiredIds == {i \in Ids : meta[i] # None /\ Expired(meta[i][1], now)}

\* What can go wrong with the store while the sweep handles one key: the get
\* throws, the value does not parse, or one of the two deletes throws.
FailKinds == {"none", "get", "parse", "delMeta", "delContent"}

NoFails == [i \in Ids |-> "none"]

\* `list({ prefix: "meta:" })`: the metadata keys, in key order.
IdOrder == <<"a", "b">>

ListedKeys == SelectSeq(IdOrder, LAMBDA i : meta[i] # None)

\* The body of the loop without the delete of content:{id}.
SweepKeyMetaOnly(id, fail, acc) ==
  IF fail \in {"get", "parse"}
  THEN [acc EXCEPT !.errors = @ + 1]
  ELSE IF acc.meta[id] = None \/ ~Expired(acc.meta[id][1], now)
  THEN acc
  ELSE IF fail = "delMeta"
  THEN [acc EXCEPT !.errors = @ + 1]
  ELSE IF fail = "delContent"
  THEN [acc EXCEPT !.meta[id] = None, !.errors = @ + 1]
  ELSE [acc EXCEPT !.meta[id] = None, !.deleted = @ + 1]

\* The body of the loop of cleanupExpiredFiles for one listed key: try the
\* get, the parse, the expiry test and the two deletes; catch counts an error.
SweepKey(id, fail, acc) ==
  IF fail \in {"get", "parse"}
  THEN [acc EXCEPT !.errors = @ + 1]
  ELSE IF acc.meta[id] = None \/ ~Expired(acc.meta[id][1], now)
  THEN acc
  ELSE IF fail = "delMeta"
  THEN [acc EXCEPT !.errors = @ + 1]
  ELSE IF fail = "delContent"
  THEN [acc EXCEPT !.meta[id] = None, !.errors = @ + 1]
  ELSE [acc EXCEPT !.meta[id] = None, !.content[id] = None,
                   !.deleted = @ + 1]

\* The loop that ends at the first key whose handling throws.
RECURSIVE SweepFromAbort(_, _, _)
SweepFromAbort(keys, fails, acc) ==
  IF keys = <<>> THEN acc
  ELSE LET next == SweepKey(Head(keys), fails[Head(keys)], acc)
       IN IF next.errors > acc.errors THEN next
          ELSE SweepFromAbort(Tail(keys), fails, next)

\* `for (const k of list.keys)`
RECURSIVE SweepFrom(_, _, _)
SweepFrom(keys, fails, acc) ==
  IF keys = <<>> THEN acc
  ELSE SweepFrom(Tail(keys), fails,
                 SweepKey(Head(keys), fails[Head(keys)], acc))

cleanupExpiredFiles(fails) ==
  SweepFrom(ListedKeys, fails,
            [meta |-> meta, content |-> content, deleted |-> 0, errors |-> 0])

\* The response to a sweep: its counts, its time and the failures it met.
CleanupResponse(deleted, errors, fails) ==
  Response("cleanup", "-", 200, "")
    @@ [deleted |-> deleted, errors |-> errors, fails |-> fails, at |-> now]

\* The sweep that reports the number of keys listed as deleted.
handleAdminCleanupCountsListed(auth, fails) ==
  /\ IF ~auth
     THEN /\ resp' = Response("cleanup", "-", 401, "unauthorized")
          /\ UNCHANGED <<meta, content>>
     ELSE LET out == cleanupExpiredFiles(fails)
          IN /\ meta' = out.meta
             /\ content' = out.content
             /\ resp' = CleanupResponse(Len(ListedKeys), out.errors, fails)
  /\ UNCHANGED <<now, delivered, inflight>>

handleAdminCleanup(auth, fails) ==
  /\ IF ~auth
     THEN /\ resp' = Response("cleanup", "-", 401, "unauthorized")
          /\ UNCHANGED <<meta, content>>
     ELSE LET out == cleanupExpiredFiles(fails)
          IN /\ meta' = out.meta
             /\ content' = out.content
             /\ resp' = CleanupResponse(out.deleted, out.errors, fails)
  /\ UNCHANGED <<now, delivered, inflight>>

Next ==
  \/ Tick
  \/ \E r \in UploadRequests : handleUpload(r)
  \/ \E id \in Ids : handleRaw(id)
  \/ \E id \in Ids, ok \in BOOLEAN : handleSub(id, ok)
  \/ \E id \in Ids, auth \in BOOLEAN : handleAdminDelete(id, auth)
  \/ \E ids \in SUBSET Ids, auth \in BOOLEAN : handleAdminBatchDelete(ids, auth)
  \/ \E auth \in BOOLEAN : handleAdminCleanup(auth, NoFails)

Spec == Init /\ [][Next]_vars

\* ---------------------------------------------------------------------
\* Payload, content type and the requests that only look at a record.
\* Uploads here vary the transport, the content type, the size and the
\* payload of one record and keep the lifecycle fields plain.

\* A metadata lookup that counts as a read of the record.
handleMetadataCounting(id) == Read("metadata", id, TRUE)

\* handleMetadata: GET /api/file/{id}
handleMetadata(id) ==
  /\ resp' = IF meta[id] = None
             THEN ReadResponse("metadata", id, 404, "not found", "")
             ELSE ReadResponse("metadata", id, 200, "", "meta")
  /\ UNCHANGED <<meta, content, now, delivered, inflight>>

\* handleAdminDownload
handleAdminDownload(id, auth) ==
  /\ resp' =
       IF ~auth THEN ReadResponse("download", id, 401, "unauthorized", "")
       ELSE IF meta[id] = None
       THEN ReadResponse("download", id, 404, "not found", "")
       ELSE IF NoContent(content[id])
       THEN ReadResponse("download", id, 404, "no content", "")
       ELSE LET st == DeliverStatus("raw", meta[id][1], content[id][1], TRUE)
            IN ReadResponse("download", id, st, StatusReason(st),
                            IF st = 200
                            THEN DeliverBody("raw", meta[id][1],
                                             content[id][1])
                            ELSE "")
  /\ UNCHANGED <<meta, content, now, delivered, inflight>>

RequestsIO ==
  [transport : Transports, slug : {None}, genId : {"a"},
   mime : Mimes, oversize : BOOLEAN,
   type : Types, content : {"data", "http://up", "hi!"},
   burnAfterRead : {FALSE}, expiresIn : {None, Some(-1)},
   maxDownloads : {None}]

NextIO ==
  \/ \E r \in RequestsIO : handleUpload(r)
  \/ handleRaw("a")
  \/ \E ok \in BOOLEAN : handleSub("a", ok)
  \/ handleMetadata("a")
  \/ \E auth \in BOOLEAN : handleAdminDownload("a", auth)

SpecIO == Init /\ [][NextIO]_vars

\* ---------------------------------------------------------------------
\* The order of the checks of a read.  Uploads here store one record whose
\* expiry, limit and content vary: a JSON body can carry a negative
\* maxDownloads, a multipart form stores 0, and either can store the empty
\* string as content.
RequestsOrder ==
  [transport : Transports, slug : {None}, genId : {"a"},
   mime : {"text/plain"}, oversize : {FALSE},
   type : {"text"}, content : {"", "data"},
   burnAfterRead : {FALSE}, expiresIn : {None, Some(-1), Some(1)},
   maxDownloads : {None, Some(-1), Some(0), Some(1)}]

NextOrder ==
  \/ Tick
  \/ \E r \in RequestsOrder : handleUpload(r)
  \/ handleRaw("a")
  \/ \E ok \in BOOLEAN : handleSub("a", ok)

SpecOrder == Init /\ [][NextOrder]_vars

\* ---------------------------------------------------------------------
\* The admin credential.  A header value and a password are sequences of
\* tokens ("Bearer", " " and the words are one token each); a header that
\* was not sent and a password that is not configured are None.  Here
\* inflight holds env.ADMIN_PASSWORD and the status of the last answer of
\* the login endpoint (0 before the first).
AuthHeaders ==
  {None, Some(<<>>),
   Some(<<"Bearer", " ", "pw">>), Some(<<"Bearer", " ", "wrong">>),
   Some(<<"Bearer", " ", "pw", " ", "x">>), Some(<<"Bearer", "pw">>),
   Some(<<"Bearer">>), Some(<<"bearer", " ", "pw">>),
   Some(<<"Basic", " ", "pw">>), Some(<<"pw">>)}

Passwords == {None, Some(<<"pw">>)}

\* The body of a login request: None when it is not JSON, otherwise its
\* password field (None when the field is absent).
LoginBodies == {None, Some(None), Some(Some(<<"pw">>)), Some(Some(<<"wrong">>))}

\* verifyAdminAuth that compares nothing after the prefix.
verifyAdminAuthPrefixOnly(authHeader, password) ==
  /\ authHeader # None
  /\ Len(authHeader[1]) >= 2
  /\ authHeader[1][1] = "Bearer" /\ authHeader[1][2] = " "

\* `if (!authHeader || !authHeader.startsWith("Bearer ")) return false;
\*  return authHeader.slice(7) === env.ADMIN_PASSWORD;`
verifyAdminAuth(authHeader, password) ==
  /\ authHeader # None
  /\ Len(authHeader[1]) >= 2
  /\ authHeader[1][1] = "Bearer" /\ authHeader[1][2] = " "
  /\ Some(SubSeq(authHeader[1], 3, Len(authHeader[1]))) = password

\* handleAdminLogin: `body.password === env.ADMIN_PASSWORD`, 400 when
\* req.json() throws; no store call and nothing is issued.
handleAdminLogin(body) ==
  LET st == IF body = None THEN 400
            ELSE IF body[1] = inflight.ADMIN_PASSWORD THEN 200 ELSE 401
  IN /\ resp' = Response("login", "-", st, "")
     /\ inflight' = [inflight EXCEPT !.login = st]
     /\ UNCHANGED <<meta, content, now, delivered>>

\* handleAdminRecords: the records listed, with hasContent for each.
handleAdminRecords(auth) ==
  /\ resp' = IF ~auth THEN Response("records", "-", 401, "unauthorized")
             ELSE Response("records", "-", 200, "")
                    @@ [records |-> {<<i, content[i] # None>> :
                                       i \in {j \in Ids : meta[j] # None}}]
  /\ UNCHANGED <<meta, content, now, delivered, inflight>>

\* handleAdminStats: the counts over the listed metadata.
handleAdminStats(auth) ==
  /\ resp' = IF ~auth THEN Response("stats", "-", 401, "unauthorized")
             ELSE Response("stats", "-", 200, "")
                    @@ [total |-> Cardinality({j \in Ids : meta[j] # None}),
                        expired |-> Cardinality(ExpiredIds)]
  /\ UNCHANGED <<meta, content, now, delivered, inflight>>

InitAdmin ==
  /\ meta = [i \in Ids |-> None]
  /\ content = [i \in Ids |-> None]
  /\ now = 0
  /\ resp = [op |-> "init", id |-> "-", status |-> 0, reason |-> "", seq |-> 0]
  /\ delivered = [i \in Ids |-> 0]
  /\ inflight \in [ADMIN_PASSWORD : Passwords, login : {0}]

\* An admin operation called with the Authorization header h.
AdminCall(h) ==
  LET auth == verifyAdminAuth(h, inflight.ADMIN_PASSWORD) IN
  \/ handleAdminRecords(auth)
  \/ \E id \in Ids : handleAdminDelete(id, auth)
  \/ \E ids \in SUBSET Ids : handleAdminBatchDelete(ids, auth)
  \/ \E id \in Ids : handleAdminDownload(id, auth)
  \/ handleAdminStats(auth)
  \/ handleAdminCleanup(auth, NoFails)

\* Uploads here only vary the id and the expiry; a record uploaded with a
\* negative expiresIn is expired at once, so the clock stands still.
RequestsAdmin ==
  [transport : {"json"}, slug : {None}, genId : Ids,
   mime : {"text/plain"}, oversize : {FALSE},
   type : {"text"}, content : {"data"},
   burnAfterRead : {FALSE}, expiresIn : {None, Some(-1)},
   maxDownloads : {None}]

NextAdmin ==
  \/ \E r \in RequestsAdmin : handleUpload(r)
  \/ \E body \in LoginBodies : handleAdminLogin(body)
  \/ \E h \in AuthHeaders : AdminCall(h)

SpecAdmin == InitAdmin /\ [][NextAdmin]_vars

\* ---------------------------------------------------------------------
\* The requests that only look at records, among uploads and reads that
\* give the records a download count, a limit, an expiry and burnAfterRead.
RequestsLook ==
  [transport : {"json"}, slug : {None}, genId : Ids,
   mime : {"text/plain"}, oversize : {FALSE},
   type : {"text"}, content : {"data"},
   burnAfterRead : BOOLEAN, expiresIn : {None, Some(1)},
   maxDownloads : {None, Some(1)}]

NextLook ==
  \/ Tick
  \/ \E r \in RequestsLook : handleUpload(r)
  \/ \E id \in Ids : handleRaw(id)
  \/ \E id \in Ids : handleMetadata(id)
  \/ \E auth \in BOOLEAN : handleAdminRecords(auth)
  \/ \E auth \in BOOLEAN : handleAdminStats(auth)
  \/ \E id \in Ids, auth \in BOOLEAN : handleAdminDownload(id, auth)

SpecLook == Init /\ [][NextLook]_vars

\* ---------------------------------------------------------------------
\* Store reads through the edge cache.  `get(key, { cacheTtl })` may answer
\* from the cache while the cached entry is younger than the TTL, whatever
\* has been put or deleted since.  Here inflight holds the cache: for each
\* key the value a get fetched from the store (None for a missing key) and
\* the time it was fetched.  The clock counts hours.
META_CACHE_TTL == 60

SecondsPerHour == 3600

EmptyCache == [meta |-> [i \in Ids |-> None], content |-> [i \in Ids |-> None]]

\* The entry is still served.
CacheValid(e) ==
  e # None /\ (now - e[1].at) * SecondsPerHour < META_CACHE_TTL

\* The values a get may return: the stored one, or the cached one.
GetOutcomes(stored, e) ==
  {stored} \cup (IF CacheValid(e) THEN {e[1].v} ELSE {})

\* The cache entry after a get: a live entry stays, otherwise the value
\* fetched from the store is cached.
Cached(stored, e) ==
  IF CacheValid(e) THEN e ELSE Some([v |-> stored, at |-> now])

\* getMeta: `env.METADATA.get("meta:" + id, { cacheTtl: META_CACHE_TTL })`
getMeta(id) == GetOutcomes(meta[id], inflight.meta[id])

\* getContent
getContent(id) == GetOutcomes(content[id], inflight.content[id])

\* handleRaw with its two gets served through the cache; handleSub makes the
\* same calls in the same order.
CachedRead(route, id, upstreamOk) ==
  \E m \in getMeta(id), c \in getContent(id) :
    LET metaGot == [inflight EXCEPT !.meta[id] = Cached(meta[id], @)]
        bothGot == [metaGot EXCEPT !.content[id] = Cached(content[id], @)]
    IN
    /\ IF m = None
       THEN /\ resp' = ReadResponse(route, id, 404, "not found", "")
            /\ inflight' = metaGot
            /\ UNCHANGED <<meta, content, delivered>>
       ELSE IF Expired(m[1], now)
       THEN /\ DeleteRecord(id)
            /\ resp' = ReadResponse(route, id, 410, "expired", "")
            /\ inflight' = metaGot
            /\ UNCHANGED delivered
       ELSE IF LimitReached(m[1])
       THEN /\ resp' = ReadResponse(route, id, 410, "limit", "")
            /\ inflight' = metaGot
            /\ UNCHANGED <<meta, content, delivered>>
       ELSE IF NoContent(c)
       THEN /\ resp' = ReadResponse(route, id, 404, "no content", "")
            /\ inflight' = bothGot
            /\ UNCHANGED <<meta, content, delivered>>
       ELSE LET m2 == Increment(m[1])
                st == DeliverStatus(route, m2, c[1], upstreamOk)
            IN /\ m[1].downloadCount < MaxCount
               /\ delivered[id] < MaxCount
               /\ IF m2.burnAfterRead
                  THEN DeleteRecord(id)
                  ELSE /\ meta' = [meta EXCEPT ![id] = Some(m2)]
                       /\ UNCHANGED content
               /\ resp' = ReadResponse(route, id, st, StatusReason(st),
                     IF st = 200 THEN DeliverBody(route, m2, c[1]) ELSE "")
               /\ inflight' = bothGot
               /\ delivered' = [delivered EXCEPT ![id] =
                                  IF st = 200 THEN @ + 1 ELSE @]
    /\ UNCHANGED now

InitCache ==
  /\ meta = [i \in Ids |-> None]
  /\ content = [i \in Ids |-> None]
  /\ now = 0
  /\ resp = [op |-> "init", id |-> "-", status |-> 0, reason |-> "", seq |-> 0]
  /\ delivered = [i \in Ids |-> 0]
  /\ inflight = EmptyCache

\* Uploads of one text record with each of the lifecycle rules.
RequestsCache ==
  [transport : {"json"}, slug : {None}, genId : {"a"},
   mime : {"text/plain"}, oversize : {FALSE},
   type : {"text"}, content : {"data"},
   burnAfterRead : BOOLEAN, expiresIn : {None, Some(1)},
   maxDownloads : {None, Some(1)}]

NextCache ==
  \/ Tick
  \/ \E r \in RequestsCache : handleUpload(r)
  \/ CachedRead("raw", "a", TRUE)
  \/ \E ok \in BOOLEAN : CachedRead("sub", "a", ok)

SpecCache == InitCache /\ [][NextCache]_vars

\* ---------------------------------------------------------------------
\* The cleanup sweep with a store that can fail. Uploads here only vary the
\* id and the expiry.
RequestsSweep ==
  [transport : {"json"}, slug : {None}, genId : Ids,
   mime : {"text/plain"}, oversize : {FALSE},
   type : {"text"}, content : {"data"},
   burnAfterRead : {FALSE}, expiresIn : {None, Some(-1), Some(1)},
   maxDownloads : {None}]

NextSweep ==
  \/ Tick
  \/ \E r \in RequestsSweep : handleUpload(r)
  \/ \E auth \in BOOLEAN, fails \in [Ids -> FailKinds] :
       handleAdminCleanup(auth, fails)

SpecSweep == Init /\ [][NextSweep]_vars

\* ---------------------------------------------------------------------
\* Sweeps after the store has recovered.  Here inflight tells whether store
\* calls can still fail.  While they can, records are uploaded and sweeps
\* meet failures; once they cannot, the sweep is called again and again
\* (there is no scheduled handler: each sweep is a call of the cleanup
\* endpoint) and nothing is uploaded any more.
InitHeal ==
  /\ meta = [i \in Ids |-> None]
  /\ content = [i \in Ids |-> None]
  /\ now = 0
  /\ resp = [op |-> "init", id |-> "-", status |-> 0, reason |-> "", seq |-> 0]
  /\ delivered = [i \in Ids |-> 0]
  /\ inflight = [failing |-> TRUE]

UploadWhileFailing(r) == inflight.failing /\ handleUpload(r)

SweepWhileFailing(fails) == inflight.failing /\ handleAdminCleanup(TRUE, fails)

\* The last failure of a store call has happened.
StopFailing ==
  /\ inflight.failing
  /\ inflight' = [failing |-> FALSE]
  /\ UNCHANGED <<meta, content, now, resp, delivered>>

SweepAfterRecovery == ~inflight.failing /\ handleAdminCleanup(TRUE, NoFails)

NextHeal ==
  \/ Tick
  \/ \E r \in RequestsSweep : UploadWhileFailing(r)
  \/ \E fails \in [Ids -> FailKinds] : SweepWhileFailing(fails)
  \/ StopFailing
  \/ SweepAfterRecovery

SpecHeal == InitHeal /\ [][NextHeal]_vars /\ WF_vars(SweepAfterRecovery)

\* ---------------------------------------------------------------------
\* The subscription-userinfo header of a successful /sub response.
\* A string is a sequence of tokens: a token is one character (a digit, ".",
\* " ", ";", "=") or a run of characters without any of these (a field
\* name, a unit, a word), so that split, trim and the size pattern act on it
\* as they act on the characters.
MaxSegs == 3

Digits == {"0", "1", "2", "3", "4", "5", "6", "7", "8", "9"}

DigitValue(d) ==
  CASE d = "0" -> 0 [] d = "1" -> 1 [] d = "2" -> 2 [] d = "3" -> 3
    [] d = "4" -> 4 [] d = "5" -> 5 [] d = "6" -> 6 [] d = "7" -> 7
    [] d = "8" -> 8 [] d = "9" -> 9

RECURSIVE DigitsValue(_)
DigitsValue(ds) ==
  IF ds = <<>> THEN 0
  ELSE DigitsValue(SubSeq(ds, 1, Len(ds) - 1)) * 10 + DigitValue(ds[Len(ds)])

RECURSIVE Pow10(_)
Pow10(k) == IF k = 0 THEN 1 ELSE 10 * Pow10(k - 1)

\* The longest prefix of s made of tokens of S.
RECURSIVE TakeWhile(_, _)
TakeWhile(s, S) ==
  IF s # <<>> /\ Head(s) \in S
  THEN <<Head(s)>> \o TakeWhile(Tail(s), S)
  ELSE <<>>

RECURSIVE TrimLeft(_)
TrimLeft(s) == IF s # <<>> /\ Head(s) = " " THEN TrimLeft(Tail(s)) ELSE s

Reverse(s) == [i \in 1..Len(s) |-> s[Len(s) + 1 - i]]

\* String.prototype.trim
Trim(s) == Reverse(TrimLeft(Reverse(TrimLeft(s))))

\* String.prototype.split(sep): the pieces between the occurrences of sep.
RECURSIVE SplitFrom(_, _, _)
SplitFrom(s, sep, cur) ==
  IF s = <<>> THEN <<cur>>
  ELSE IF Len(s) >= Len(sep) /\ SubSeq(s, 1, Len(sep)) = sep
  THEN <<cur>> \o SplitFrom(SubSeq(s, Len(sep) + 1, Len(s)), sep, <<>>)
  ELSE SplitFrom(Tail(s), sep, Append(cur, Head(s)))

Split(s, sep) == SplitFrom(s, sep, <<>>)

\* Array.prototype.join(sep)
RECURSIVE Join(_, _)
Join(parts, sep) ==
  IF parts = <<>> THEN <<>>
  ELSE IF Len(parts) = 1 THEN parts[1]
  ELSE parts[1] \o sep \o Join(Tail(parts), sep)

\* parseFloat of a run of digits and dots: the digits up to the second dot,
\* as <<numerator, denominator>>; None is NaN (no digit at all).
ParseFloat(p) ==
  LET ip == TakeWhile(p, Digits)
      rest == SubSeq(p, Len(ip) + 1, Len(p))
      fp == IF rest # <<>> /\ Head(rest) = "."
            THEN TakeWhile(Tail(rest), Digits) ELSE <<>>
  IN IF ip = <<>> /\ fp = <<>> THEN None
     ELSE Some(<<DigitsValue(ip) * Pow10(Len(fp)) + DigitsValue(fp),
                 Pow10(Len(fp))>>)

UnitTokens == {"B", "KB", "MB", "GB", "TB", "kb"}

\* `units[unit]` after toUpperCase
UnitFactor(u) ==
  CASE u = "B" -> 1
    [] u \in {"KB", "kb"} -> 1024
    [] u = "MB" -> 1024 * 1024
    [] u = "GB" -> 1024 * 1024 * 1024
    [] u = "TB" -> 1024 * 1024 * 1024 * 1024

\* parseSize, with the number it returns written as `${...}` writes it.
\* The pattern is /^([\d.]+)\s*(GB|MB|TB|KB|B)?$/i on the string as given.
parseSize(s) ==
  IF s = <<>> THEN "0"
  ELSE LET num == TakeWhile(s, Digits \cup {"."})
           unit == TrimLeft(SubSeq(s, Len(num) + 1, Len(s)))
           matches == /\ num # <<>>
                      /\ \/ unit = <<>>
                         \/ Len(unit) = 1 /\ unit[1] \in UnitTokens
       IN IF ~matches THEN "0"
          ELSE LET f == ParseFloat(num)
                   factor == IF unit = <<>> THEN 1 ELSE UnitFactor(unit[1])
               IN IF f = None THEN "NaN"
                  ELSE ToString((f[1][1] * factor) \div f[1][2])

\* The seconds since the epoch `new Date(...)` gives for an expire string
\* (a bare date is the end of that day at UTC+8); None is an invalid date.
ExpireSeconds(e) ==
  IF e = <<"1970-01-02">> THEN Some(143999) ELSE None

\* `subInfo.f && subInfo.f.trim() !== ''`
FieldGiven(v) == v # None /\ Trim(v[1]) # <<>>

SizePart(name, v) ==
  IF FieldGiven(v) THEN << <<name, "=", parseSize(v[1])>> >> ELSE <<>>

ExpirePart(v) ==
  IF FieldGiven(v) /\ ExpireSeconds(Trim(v[1])) # None
  THEN << <<"expire", "=", ToString(ExpireSeconds(Trim(v[1]))[1])>> >>
  ELSE <<>>

\* infoParts of buildSubscriptionHeaders; subInfo is None (null) or a record
\* whose fields are None (absent) or Some(string).
infoParts(subInfo) ==
  IF subInfo = None THEN <<>>
  ELSE SizePart("upload", subInfo[1].upload)
       \o SizePart("download", subInfo[1].download)
       \o SizePart("total", subInfo[1].total)
       \o ExpirePart(subInfo[1].expire)

\* A truthy value of an overlay field that is not a string (a JSON number,
\* true, an object): the upload keeps subscriptionInfo as the body gave it.
NotAString == <<"<not a string>">>

\* A character that is half of a surrogate pair, on its own.
LoneSurrogate == "<lone surrogate>"

\* encodeURIComponent of one token; the words of the model are letters and
\* digits, which it keeps.
EncodeToken(t) ==
  CASE t = " " -> "%20"
    [] t = ";" -> "%3B"
    [] t = "=" -> "%3D"
    [] OTHER -> t

\* encodeURIComponent throws URIError on a lone surrogate.
EncodeThrows(str) == \E i \in 1..Len(str) : str[i] = LoneSurrogate

EncodeURIComponent(str) == [i \in 1..Len(str) |-> EncodeToken(str[i])]

\* `.trim` of a value that is not a string is not a function, and the call
\* throws TypeError; encodeURIComponent throws on the trimmed name.
BuildThrows(subInfo) ==
  /\ subInfo # None
  /\ \/ \E f \in {"upload", "download", "total", "expire", "name"} :
          subInfo[1][f] = Some(NotAString)
     \/ /\ FieldGiven(subInfo[1].name)
        /\ EncodeThrows(Trim(subInfo[1].name[1]))

\* headers["content-disposition"] of buildSubscriptionHeaders
NameHeader(subInfo) ==
  IF subInfo # None /\ FieldGiven(subInfo[1].name)
  THEN Some(<<"attachment", ";", " ", "filename*", "=", "UTF-8''">>
              \o EncodeURIComponent(Trim(subInfo[1].name[1])))
  ELSE None

\* The headers buildSubscriptionHeaders returns when it does not throw; a
\* header that is not set is None.
buildSubscriptionHeaders(subInfo) ==
  [userinfo |-> IF infoParts(subInfo) = <<>> THEN None
                ELSE Some(Join(infoParts(subInfo), <<";", " ">>)),
   disposition |-> NameHeader(subInfo)]

\* An assignment that adds a property even when the name is there already.
SetPropertyAppend(obj, k, v) == Append(obj, <<k, v>>)

\* `result[key] = value` on an object kept as its properties in the order
\* they were created.
SetProperty(obj, k, v) ==
  IF \E i \in 1..Len(obj) : obj[i][1] = k
  THEN [i \in 1..Len(obj) |-> IF obj[i][1] = k THEN <<k, v>> ELSE obj[i]]
  ELSE Append(obj, <<k, v>>)

\* The callback of parseUserInfo for one segment of the header.
ParsePart(obj, part) ==
  LET pieces == Split(Trim(part), <<"=">>)
  IN IF pieces[1] # <<>> /\ Len(pieces) >= 2 /\ pieces[2] # <<>>
     THEN SetProperty(obj, Trim(pieces[1]), Trim(pieces[2]))
     ELSE obj

RECURSIVE ParseParts(_, _)
ParseParts(obj, parts) ==
  IF parts = <<>> THEN obj
  ELSE ParseParts(ParsePart(obj, Head(parts)), Tail(parts))

\* parseUserInfo; header is None (null) or Some(string).
parseUserInfo(header) ==
  IF header = None \/ header[1] = <<>> THEN <<>>
  ELSE ParseParts(<<>>, Split(header[1], <<";">>))

\* A property name that is an array index: digits without a leading zero.
IsArrayIndex(k) ==
  /\ k # <<>>
  /\ \A i \in 1..Len(k) : k[i] \in Digits
  /\ Len(k) = 1 \/ k[1] # "0"

RECURSIVE IndexEntries(_, _)
IndexEntries(obj, S) ==
  IF S = {} THEN <<>>
  ELSE LET m == CHOOSE i \in S :
                  \A j \in S : DigitsValue(obj[i][1]) <= DigitsValue(obj[j][1])
       IN <<obj[m]>> \o IndexEntries(obj, S \ {m})

\* Object.entries: the array-index names in ascending order, then the other
\* names in the order they were created.
ObjectEntries(obj) ==
  IndexEntries(obj, {i \in 1..Len(obj) : IsArrayIndex(obj[i][1])})
    \o SelectSeq(obj, LAMBDA e : ~IsArrayIndex(e[1]))

RenderEntries(es) == [i \in 1..Len(es) |-> es[i][1] \o <<"=">> \o es[i][2]]

\* The merge that passes the parsed upstream fields on when there is no
\* custom value.
SubUserInfoHeaderReparsed(subInfo, originalUserInfo) ==
  LET originalInfo == parseUserInfo(originalUserInfo)
      subHeaders == buildSubscriptionHeaders(subInfo)
  IN IF subHeaders.userinfo # None
     THEN LET customParts == Split(subHeaders.userinfo[1], <<";", " ">>)
              customKeys == {Split(customParts[i], <<"=">>)[1] :
                               i \in 1..Len(customParts)}
              added == SelectSeq(ObjectEntries(originalInfo),
                                 LAMBDA e : e[1] \notin customKeys)
          IN Some(Join(customParts \o RenderEntries(added), <<";", " ">>))
     ELSE IF originalInfo # <<>>
     THEN Some(Join(RenderEntries(ObjectEntries(originalInfo)), <<";", " ">>))
     ELSE None

\* responseHeaders["subscription-userinfo"] of handleSub: None when the
\* response carries no such header.
SubUserInfoHeader(subInfo, originalUserInfo) ==
  LET originalInfo == parseUserInfo(originalUserInfo)
      subHeaders == buildSubscriptionHeaders(subInfo)
  IN IF subHeaders.userinfo # None
     THEN LET customParts == Split(subHeaders.userinfo[1], <<";", " ">>)
              customKeys == {Split(customParts[i], <<"=">>)[1] :
                               i \in 1..Len(customParts)}
              added == SelectSeq(ObjectEntries(originalInfo),
                                 LAMBDA e : e[1] \notin customKeys)
          IN Some(Join(customParts \o RenderEntries(added), <<";", " ">>))
     ELSE IF originalUserInfo # None /\ originalUserInfo[1] # <<>>
     THEN originalUserInfo
     ELSE None

\* The overlays stored with a record.
Overlays ==
  {None} \cup
  {Some(o) : o \in [upload : {None, Some(<<" ">>), Some(<<"1", "KB">>)},
                    download : {None, Some(<<>>)},
                    total : {None, Some(<<"2">>)},
                    expire : {None, Some(<<"bad">>),
                              Some(<<"1970-01-02">>)},
                    name : {None}]}

\* The segments an upstream header is made of.
Segments ==
  { <<"upload", "=", "7">>,
    <<" ", "total", "=", "5">>,
    <<"total", "=", "6">>,
    <<" ", "x", "=", "a", "=", "b">>,
    <<"x", " ", "=", " ", "c">>,
    <<"x", "=">>,
    <<"2", "=", "9">>,
    <<" ", "1", "=", "9">>,
    <<>> }

SegmentLists == UNION {[1..n -> Segments] : n \in 1..MaxSegs}

\* What `response.headers.get("subscription-userinfo")` returns.
UpstreamHeaders == {None} \cup {Some(Join(l, <<";">>)) : l \in SegmentLists}

\* A /sub request of a subscription record whose upstream has answered.
InitMerge ==
  /\ meta = [i \in Ids |-> None]
  /\ content = [i \in Ids |-> None]
  /\ now = 0
  /\ resp = [op |-> "init", id |-> "-", status |-> 0, reason |-> "", seq |-> 0]
  /\ delivered = [i \in Ids |-> 0]
  /\ inflight \in [subInfo : Overlays, originalUserInfo : UpstreamHeaders,
                   contentDisposition : {None},
                   profileUpdateInterval : {None}]

\* `if (h) responseHeaders[...] = h`: a header the upstream did not send
\* (null) and one with an empty value are both left out.
PassThrough(h) == IF h # None /\ h[1] # <<>> THEN h ELSE None

\* The content-disposition that prefers the one of the upstream.
SubDispositionUpstreamFirst(subInfo, contentDisposition) ==
  IF PassThrough(contentDisposition) # None
  THEN PassThrough(contentDisposition)
  ELSE buildSubscriptionHeaders(subInfo).disposition

\* responseHeaders["content-disposition"] of handleSub
SubDisposition(subInfo, contentDisposition) ==
  IF buildSubscriptionHeaders(subInfo).disposition # None
  THEN buildSubscriptionHeaders(subInfo).disposition
  ELSE PassThrough(contentDisposition)

\* The headers of the response of handleSub once the upstream has answered
\* with 200; an exception in the composition is caught and answered 502.
SubRespond ==
  /\ resp.op = "init"
  /\ resp' =
       IF BuildThrows(inflight.subInfo)
       THEN Response("sub", "-", 502, "exception")
              @@ [userinfo |-> None, disposition |-> None, interval |-> None]
       ELSE Response("sub", "-", 200, "")
              @@ [userinfo |-> SubUserInfoHeader(inflight.subInfo,
                                                 inflight.originalUserInfo),
                  disposition |-> SubDisposition(inflight.subInfo,
                                                 inflight.contentDisposition),
                  interval |-> PassThrough(inflight.profileUpdateInterval)]
  /\ UNCHANGED <<meta, content, now, delivered, inflight>>

NextMerge == SubRespond

SpecMerge == InitMerge /\ [][NextMerge]_vars

\* ---------------------------------------------------------------------
\* The other headers of that response: overlays with a name, upstreams with
\* a content-disposition and a profile-update-interval.
OverlaysNamed ==
  {None} \cup
  {Some(o) : o \in [upload : {None, Some(<<"1", "KB">>)},
                    download : {None},
                    total : {None},
                    expire : {None, Some(<<"bad">>)},
                    name : {None, Some(<<>>), Some(<<" ">>),
                            Some(<<" ", "my", " ", "sub">>),
                            Some(<<LoneSurrogate>>), Some(NotAString)}]}

UpstreamDispositions ==
  {None, Some(<<>>), Some(<<"attachment", ";", " ", "filename", "=", "up">>)}

UpstreamIntervals == {None, Some(<<>>), Some(<<"2", "4">>)}

InitHeaders ==
  /\ meta = [i \in Ids |-> None]
  /\ content = [i \in Ids |-> None]
  /\ now = 0
  /\ resp = [op |-> "init", id |-> "-", status |-> 0, reason |-> "", seq |-> 0]
  /\ delivered = [i \in Ids |-> 0]
  /\ inflight \in [subInfo : OverlaysNamed,
                   originalUserInfo : {None, Some(<<"total", "=", "5">>)},
                   contentDisposition : UpstreamDispositions,
                   profileUpdateInterval : UpstreamIntervals]

NextHeaders == SubRespond

SpecHeaders == InitHeaders /\ [][NextHeaders]_vars

\* ---------------------------------------------------------------------
\* buildSubscriptionHeaders on its own, applied to an overlay.
OverlaysBuild ==
  {None} \cup
  {Some(o) : o \in [upload : {None, Some(<<>>), Some(<<" ">>),
                              Some(<<" ", "1", "KB">>),
                              Some(<<"1", ".", "5", "MB">>),
                              Some(NotAString)},
                    download : {None, Some(<<"2">>)},
                    total : {None, Some(<<"x">>)},
                    expire : {None, Some(<<" ">>), Some(<<"bad">>),
                              Some(<<" ", "1970-01-02">>)},
                    name : {None, Some(<<" ">>),
                            Some(<<" ", "my", " ", "sub">>),
                            Some(<<LoneSurrogate>>)}]}

InitBuild ==
  /\ meta = [i \in Ids |-> None]
  /\ content = [i \in Ids |-> None]
  /\ now = 0
  /\ resp = [op |-> "init", id |-> "-", status |-> 0, reason |-> "", seq |-> 0]
  /\ delivered = [i \in Ids |-> 0]
  /\ inflight \in [subInfo : OverlaysBuild]

\* One call of buildSubscriptionHeaders: what it returned, or that it threw.
BuildRespond ==
  /\ resp.op = "init"
  /\ resp' =
       IF BuildThrows(inflight.subInfo)
       THEN Response("build", "-", 500, "exception")
              @@ [userinfo |-> None, disposition |-> None]
       ELSE Response("build", "-", 200, "")
              @@ buildSubscriptionHeaders(inflight.subInfo)
  /\ UNCHANGED <<meta, content, now, delivered, inflight>>

NextBuild == BuildRespond

SpecBuild == InitBuild /\ [][NextBuild]_vars

\* ---------------------------------------------------------------------
\* parseSize on its own, applied to the strings of at most MaxLen tokens.
MaxLen == 4

SizeTokens == {"1", ".", " ", "KB", "x"}

SizeStrings == UNION {[1..n -> SizeTokens] : n \in 0..MaxLen}

InitSize ==
  /\ meta = [i \in Ids |-> None]
  /\ content = [i \in Ids |-> None]
  /\ now = 0
  /\ resp = [op |-> "init", id |-> "-", status |-> 0, reason |-> "", seq |-> 0]
  /\ delivered = [i \in Ids |-> 0]
  /\ inflight \in [s : SizeStrings]

\* One call of parseSize.
SizeRespond ==
  /\ resp.op = "init"
  /\ resp' = Response("size", "-", 200, "") @@ [value |-> parseSize(inflight.s)]
  /\ UNCHANGED <<meta, content, now, delivered, inflight>>

NextSize == SizeRespond

SpecSize == InitSize /\ [][NextSize]_vars

\* ---------------------------------------------------------------------
\* Concurrent requests.  Every `await` on the store is a step of its own;
\* inflight[p] holds the locals of the request that worker p is serving.
\* The store is last-writer-wins per key.  The requests all address one
\* identifier, and a record that expires is uploaded already expired, so the
\* clock need not advance.
Procs == {"p1", "p2"}

Idle == [pc |-> "idle"]

RequestsConc ==
  [transport : {"json"}, slug : {None, Some("a")}, genId : {"a"},
   mime : {"text/plain"}, oversize : {FALSE},
   type : {"text"}, content : {"data"}, burnAfterRead : BOOLEAN,
   expiresIn : {None, Some(-1)}, maxDownloads : {None, Some(1)}]

InitConc ==
  /\ meta = [i \in Ids |-> None]
  /\ content = [i \in Ids |-> None]
  /\ now = 0
  /\ resp = [op |-> "init", id |-> "-", status |-> 0, reason |-> "", seq |-> 0]
  /\ delivered = [i \in Ids |-> 0]
  /\ inflight = [p \in Procs |-> Idle]

Finish(p) == inflight' = [inflight EXCEPT ![p] = Idle]

Goto(p, loc) == inflight' = [inflight EXCEPT ![p] = loc]

\* handleUpload up to and including `await getMeta(env, customSlug)`
UploadStart(p, r) ==
  LET id == IF r.slug # None THEN r.slug[1] ELSE r.genId IN
  /\ inflight[p].pc = "idle"
  /\ IF UploadRejection(r) # ""
     THEN /\ resp' = UploadResponse(r, "-", 400, UploadRejection(r))
          /\ UNCHANGED inflight
     ELSE IF r.slug # None /\ meta[id] # None
     THEN /\ resp' = UploadResponse(r, id, 400, "slug exists")
          /\ UNCHANGED inflight
     ELSE /\ Goto(p, [pc |-> "upPutContent", id |-> id, r |-> r,
                      c |-> StoredContent(r.transport, r.content),
                      m |-> MetaOf(r, now)])
          /\ UNCHANGED resp
  /\ UNCHANGED <<meta, content, now, delivered>>

\* `await env.METADATA.put("content:" + id, content)`
UploadPutContent(p) ==
  /\ inflight[p].pc = "upPutContent"
  /\ content' = [content EXCEPT ![inflight[p].id] = Some(inflight[p].c)]
  /\ Goto(p, [inflight[p] EXCEPT !.pc = "upPutMeta"])
  /\ UNCHANGED <<meta, now, resp, delivered>>

\* `await env.METADATA.put("meta:" + id, JSON.stringify(meta))`
UploadPutMeta(p) ==
  /\ inflight[p].pc = "upPutMeta"
  /\ meta' = [meta EXCEPT ![inflight[p].id] = Some(inflight[p].m)]
  /\ delivered' = [delivered EXCEPT ![inflight[p].id] = 0]
  /\ resp' = UploadResponse(inflight[p].r, inflight[p].id, 200,
                            IF inflight[p].r.slug # None THEN "custom slug"
                            ELSE "generated id")
  /\ Finish(p)
  /\ UNCHANGED <<content, now>>

\* The start of a read without the check of the download limit.
ReadStartNoLimitCheck(p, route, id, upstreamOk) ==
  /\ inflight[p].pc = "idle"
  /\ meta[id] # None => meta[id][1].downloadCount < MaxCount
  /\ IF meta[id] = None
     THEN /\ resp' = ReadResponse(route, id, 404, "not found", "")
          /\ UNCHANGED inflight
     ELSE LET m == meta[id][1]
              loc == [pc |-> "rdGetContent", route |-> route, id |-> id,
                      m |-> m, ok |-> upstreamOk, seen |-> m.downloadCount]
          IN IF Expired(m, now)
             THEN /\ Goto(p, [loc EXCEPT !.pc = "rdExpDelMeta"])
                  /\ UNCHANGED resp
             ELSE /\ Goto(p, loc)
                  /\ UNCHANGED resp
  /\ UNCHANGED <<meta, content, now, delivered>>

\* handleRaw / handleSub: `await getMeta(env, id)` and the checks made on
\* the value it returned.
ReadStart(p, route, id, upstreamOk) ==
  /\ inflight[p].pc = "idle"
  /\ meta[id] # None => meta[id][1].downloadCount < MaxCount
  /\ IF meta[id] = None
     THEN /\ resp' = ReadResponse(route, id, 404, "not found", "")
          /\ UNCHANGED inflight
     ELSE LET m == meta[id][1]
              loc == [pc |-> "rdGetContent", route |-> route, id |-> id,
                      m |-> m, ok |-> upstreamOk, seen |-> m.downloadCount]
          IN IF Expired(m, now)
             THEN /\ Goto(p, [loc EXCEPT !.pc = "rdExpDelMeta"])
                  /\ UNCHANGED resp
             ELSE IF LimitReached(m)
             THEN /\ resp' = ReadResponse(route, id, 410, "limit", "")
                  /\ UNCHANGED inflight
             ELSE /\ Goto(p, loc)
                  /\ UNCHANGED resp
  /\ UNCHANGED <<meta, content, now, delivered>>

\* expiry branch: `await env.METADATA.delete("meta:" + id)`
ReadExpiredDeleteMeta(p) ==
  /\ inflight[p].pc = "rdExpDelMeta"
  /\ meta' = [meta EXCEPT ![inflight[p].id] = None]
  /\ Goto(p, [inflight[p] EXCEPT !.pc = "rdExpDelContent"])
  /\ UNCHANGED <<content, now, resp, delivered>>

\* expiry branch: `await env.METADATA.delete("content:" + id)` and the 410
ReadExpiredDeleteContent(p) ==
  /\ inflight[p].pc = "rdExpDelContent"
  /\ content' = [content EXCEPT ![inflight[p].id] = None]
  /\ resp' = ReadResponse(inflight[p].route, inflight[p].id, 410,
                          "expired", "")
  /\ Finish(p)
  /\ UNCHANGED <<meta, now, delivered>>

\* `await getContent(env, id)`, the content check and the increment of the
\* local copy of the metadata
ReadGetContent(p) ==
  LET loc == inflight[p] IN
  /\ loc.pc = "rdGetContent"
  /\ IF NoContent(content[loc.id])
     THEN /\ resp' = ReadResponse(loc.route, loc.id, 404, "no content", "")
          /\ Finish(p)
     ELSE /\ Goto(p, [pc |-> IF loc.m.burnAfterRead THEN "rdBurnDelMeta"
                                                    ELSE "rdPutMeta",
                      route |-> loc.route, id |-> loc.id,
                      m |-> Increment(loc.m), ok |-> loc.ok,
                      seen |-> loc.seen, c |-> content[loc.id][1]])
          /\ UNCHANGED resp
  /\ UNCHANGED <<meta, content, now, delivered>>

\* The response that follows the store update of a read.
ReadRespond(p) ==
  LET loc == inflight[p]
      st == DeliverStatus(loc.route, loc.m, loc.c, loc.ok)
  IN /\ resp' = ReadResponse(loc.route, loc.id, st, StatusReason(st),
                             IF st = 200
                             THEN DeliverBody(loc.route, loc.m, loc.c)
                             ELSE "")
     /\ delivered' = [delivered EXCEPT ![loc.id] =
                        IF st = 200 THEN @ + 1 ELSE @]
     /\ Finish(p)

\* burn branch: `await env.METADATA.delete("meta:" + id)`
ReadBurnDeleteMeta(p) ==
  /\ inflight[p].pc = "rdBurnDelMeta"
  /\ meta' = [meta EXCEPT ![inflight[p].id] = None]
  /\ Goto(p, [inflight[p] EXCEPT !.pc = "rdBurnDelContent"])
  /\ UNCHANGED <<content, now, resp, delivered>>

\* burn branch: `await env.METADATA.delete("content:" + id)`, then respond
ReadBurnDeleteContent(p) ==
  /\ inflight[p].pc = "rdBurnDelContent"
  /\ content' = [content EXCEPT ![inflight[p].id] = None]
  /\ ReadRespond(p)
  /\ UNCHANGED <<meta, now>>

\* `await env.METADATA.put("meta:" + id, JSON.stringify(meta))`, then respond
ReadPutMeta(p) ==
  /\ inflight[p].pc = "rdPutMeta"
  /\ meta' = [meta EXCEPT ![inflight[p].id] = Some(inflight[p].m)]
  /\ ReadRespond(p)
  /\ UNCHANGED <<content, now>>

NextConc ==
  \/ \E p \in Procs, r \in RequestsConc : UploadStart(p, r)
  \/ \E p \in Procs : UploadPutContent(p)
  \/ \E p \in Procs : UploadPutMeta(p)
  \/ \E p \in Procs, route \in Routes :
       ReadStart(p, route, "a", TRUE)
  \/ \E p \in Procs : ReadExpiredDeleteMeta(p)
  \/ \E p \in Procs : ReadExpiredDeleteContent(p)
  \/ \E p \in Procs : ReadGetContent(p)
  \/ \E p \in Procs : ReadBurnDeleteMeta(p)
  \/ \E p \in Procs : ReadBurnDeleteContent(p)
  \/ \E p \in Procs : ReadPutMeta(p)

SpecConc == InitConc /\ [][NextConc]_vars

\* ---------------------------------------------------------------------
\* Reads concurrent with an admin delete.  handleAdminDelete, authorized, is
\* two store calls: `delete("meta:" + id)`, then `delete("content:" + id)`.
AdminDeleteMeta(p, id) ==
  /\ inflight[p].pc = "idle"
  /\ meta' = [meta EXCEPT ![id] = None]
  /\ Goto(p, [pc |-> "adDelContent", id |-> id])
  /\ UNCHANGED <<content, now, resp, delivered>>

AdminDeleteContent(p) ==
  /\ inflight[p].pc = "adDelContent"
  /\ content' = [content EXCEPT ![inflight[p].id] = None]
  /\ resp' = Response("delete", inflight[p].id, 200, "")
  /\ Finish(p)
  /\ UNCHANGED <<meta, now, delivered>>

\* Uploads under the custom slug "a"; they are refused while meta:a exists.
RequestsGone ==
  [transport : {"json"}, slug : {Some("a")}, genId : {"a"},
   mime : {"text/plain"}, oversize : {FALSE},
   type : {"text"}, content : {"data"}, burnAfterRead : BOOLEAN,
   expiresIn : {None, Some(-1)}, maxDownloads : {None, Some(1)}]

NextGone ==
  \/ \E p \in Procs, r \in RequestsGone : UploadStart(p, r)
  \/ \E p \in Procs : UploadPutContent(p)
  \/ \E p \in Procs : UploadPutMeta(p)
  \/ \E p \in Procs, route \in Routes :
       ReadStart(p, route, "a", TRUE)
  \/ \E p \in Procs : ReadExpiredDeleteMeta(p)
  \/ \E p \in Procs : ReadExpiredDeleteContent(p)
  \/ \E p \in Procs : ReadGetContent(p)
  \/ \E p \in Procs : ReadBurnDeleteMeta(p)
  \/ \E p \in Procs : ReadBurnDeleteContent(p)
  \/ \E p \in Procs : ReadPutMeta(p)
  \/ \E p \in Procs : AdminDeleteMeta(p, "a")
  \/ \E p \in Procs : AdminDeleteContent(p)

SpecGone == InitConc /\ [][NextGone]_vars

\* ---------------------------------------------------------------------
\* Concurrent uploads that supply the same customSlug.  A text upload
\* carries the content "data", a subscription upload the content
\* "http://up", so the stored content tells which upload wrote it.
RequestsSlug ==
  {r \in [transport : {"json"}, slug : {Some("a")}, genId : {"a"},
           mime : {"text/plain"}, oversize : {FALSE},
           type : Types, content : {"data", "http://up"},
           burnAfterRead : BOOLEAN, expiresIn : {None},
           maxDownloads : {None, Some(1)}] :
      r.type = "text" <=> r.content = "data"}

NextSlug ==
  \/ \E p \in Procs, r \in RequestsSlug : UploadStart(p, r)
  \/ \E p \in Procs : UploadPutContent(p)
  \/ \E p \in Procs : UploadPutMeta(p)

SpecSlug == InitConc /\ [][NextSlug]_vars

\* =====================================================================
\* Properties
\* =====================================================================

\* A step of Spec in which one request was served from start to end.
OpStep == resp'.seq # resp.seq

\* ... and that request was GET /raw/{id} or GET /sub/{id}.
ReadStepOf(id) == OpStep /\ resp'.op \in Routes /\ resp'.id = id

Present(id) == meta[id] # None

PastExpiry(id) ==
  Present(id) /\ meta[id][1].expiresAt # None /\ meta[id][1].expiresAt[1] < now

\* C1: a read of a burnAfterRead record that is neither expired nor at its
\* limit returns 200 and removes meta:{id} and content:{id}; a read of an id
\* without metadata returns 404.
C1_BurnFirstReadSucceeds ==
  [][\A id \in Ids :
       ReadStepOf(id) =>
         /\ (Present(id) /\ meta[id][1].burnAfterRead /\ ~PastExpiry(id)
               /\ ~(meta[id][1].maxDownloads # None
                     /\ meta[id][1].downloadCount
                          >= meta[id][1].maxDownloads[1]))
              => (resp'.status = 200 /\ meta'[id] = None
                  /\ content'[id] = None)
         /\ ~Present(id) => resp'.status = 404]_vars

C3_AtLimitGoneAndIntact ==
  [][\A id \in Ids :
       (ReadStepOf(id) /\ Present(id) /\ ~PastExpiry(id)
          /\ meta[id][1].maxDownloads # None
          /\ meta[id][1].downloadCount = meta[id][1].maxDownloads[1])
       => (resp'.status = 410 /\ meta'[id] = meta[id]
           /\ content'[id] = content[id])]_vars

\* C4: of a record created with maxDownloads = N at most N reads return the
\* content: a read that returns 200 never brings the number of delivered
\* reads above N, and a read that finds downloadCount >= maxDownloads on an
\* unexpired record returns 410.
C4_AtMostNDelivered ==
  [][\A id \in Ids :
       (ReadStepOf(id) /\ Present(id) /\ meta[id][1].maxDownloads # None)
       => /\ resp'.status = 200
               => delivered'[id] <= meta[id][1].maxDownloads[1]
          /\ (~PastExpiry(id) /\ meta[id][1].downloadCount
                                   >= meta[id][1].maxDownloads[1])
               => resp'.status = 410]_vars

\* Worker p performs the put of the metadata that ends a read.
ReadPutBy(p) == inflight[p].pc = "rdPutMeta" /\ inflight'[p].pc = "idle"

\* C5 (as claimed): under any interleaving of concurrent reads, each put of
\* the metadata by a read writes a downloadCount >= the one stored just
\* before that put.
C5_CountNeverDecreases ==
  [][\A p \in Procs :
       (ReadPutBy(p) /\ meta[inflight[p].id] # None)
       => meta'[inflight[p].id][1].downloadCount
            >= meta[inflight[p].id][1].downloadCount]_vars

\* C5 (amended): the put of a read writes the downloadCount its own get
\* returned plus one; so when the stored downloadCount is still the one the
\* get returned, the put raises it by exactly one.
C5_PutIsSeenPlusOne ==
  [][\A p \in Procs :
       ReadPutBy(p) =>
         /\ meta'[inflight[p].id] # None
         /\ meta'[inflight[p].id][1].downloadCount = inflight[p].seen + 1
         /\ (meta[inflight[p].id] # None
               /\ meta[inflight[p].id][1].downloadCount = inflight[p].seen)
              => meta'[inflight[p].id][1].downloadCount
                   = meta[inflight[p].id][1].downloadCount + 1]_vars

\* Two reads are in flight, one of them about to put, and an earlier put has
\* already raised the counter.
C5_Witness ==
  \E p, q \in Procs :
    /\ p # q
    /\ inflight[p].pc = "rdPutMeta"
    /\ inflight[q].pc = "rdPutMeta"
    /\ meta[inflight[p].id] # None
    /\ meta[inflight[p].id][1].downloadCount = inflight[p].seen
    /\ inflight[p].seen >= 1

\* C6: a read of a record with burnAfterRead = false that returns 200 leaves
\* downloadCount one greater; a read that returns 404, 410 (limit) or 502
\* leaves the stored metadata as it was.
C6_CountOncePerSuccess ==
  [][\A id \in Ids :
       (ReadStepOf(id) /\ Present(id) /\ ~meta[id][1].burnAfterRead)
       => /\ resp'.status = 200
               => (meta'[id] # None
                   /\ meta'[id][1].downloadCount
                        = meta[id][1].downloadCount + 1)
          /\ (resp'.status \in {404, 502}
                \/ (resp'.status = 410 /\ resp'.reason = "limit"))
               => meta'[id] = meta[id]]_vars

\* C7: a read of an unexpired burnAfterRead record that ends in a failure
\* status leaves meta:{id} and content:{id} in the store.
C7_BurnOnlyOnSuccess ==
  [][\A id \in Ids :
       (ReadStepOf(id) /\ Present(id) /\ meta[id][1].burnAfterRead
          /\ ~PastExpiry(id) /\ resp'.status # 200)
       => (meta'[id] = meta[id] /\ content'[id] = content[id])]_vars

C10_FreshSlugThenReadOk ==
  [][\A id \in Ids :
       (ReadStepOf(id) /\ resp.op = "upload" /\ resp.status = 200
          /\ resp.reason = "custom slug" /\ resp.id = id)
       => resp'.status = 200]_vars

\* C11: an upload, multipart or JSON, that is larger than 25MB or whose
\* content type is an image/, video/ or audio/ type is answered with 400 and
\* writes nothing.
C11_OversizeOrBlockedRejected ==
  [][(OpStep /\ resp'.op = "upload"
        /\ (resp'.oversize \/ resp'.mime \in {"image/png"}))
     => (resp'.status = 400 /\ meta' = meta /\ content' = content)]_vars

\* C12: no request for a record whose expiresAt has passed (/raw, /sub,
\* /api/file, admin download) is answered with 200.
C12_ExpiredNever200 ==
  [][\A id \in Ids :
       (OpStep /\ resp'.op \in {"raw", "sub", "metadata", "download"}
          /\ resp'.id = id /\ PastExpiry(id))
       => resp'.status # 200]_vars

\* C16: a /raw or /sub request ends with 200, 404, 410 or 502; 502 only on
\* /sub of a subscription record, 404 only when the metadata or the content
\* is absent, 410 only when the record is expired or at its limit.
C16_ReadStatusCodes ==
  [][\A id \in Ids :
       ReadStepOf(id) =>
         /\ resp'.status \in {200, 404, 410, 502}
         /\ resp'.status = 502
              => (resp'.op = "sub" /\ Present(id)
                  /\ meta[id][1].type = "subscription")
         /\ resp'.status = 404 => (~Present(id) \/ content[id] = None)
         /\ resp'.status = 410
              => (PastExpiry(id)
                  \/ (Present(id) /\ meta[id][1].maxDownloads # None
                       /\ meta[id][1].downloadCount
                            >= meta[id][1].maxDownloads[1]))]_vars

\* C17: the /raw read that follows an accepted upload and returns 200
\* returns the payload that was uploaded.
C17_PayloadRoundTrip ==
  [][\A id \in Ids :
       (OpStep /\ resp'.op = "raw" /\ resp'.id = id /\ resp'.status = 200
          /\ resp.op = "upload" /\ resp.status = 200 /\ resp.id = id)
       => resp'.body = resp.payload]_vars

\* A step that is a cleanup sweep that ran (the admin was authorized) ...
SweepStep == OpStep /\ resp'.op = "cleanup" /\ resp'.status = 200

\* ... in which no store call failed.
CleanSweepStep == SweepStep /\ \A i \in Ids : resp'.fails[i] = "none"

\* C13: a sweep in which no store call fails deletes both keys of every
\* expired record, returns deleted = the number of such records and
\* errors = 0, and leaves every other record unchanged.
C13_SweepDeletesExpired ==
  [][CleanSweepStep =>
       /\ \A i \in Ids :
            IF PastExpiry(i)
            THEN meta'[i] = None /\ content'[i] = None
            ELSE meta'[i] = meta[i] /\ content'[i] = content[i]
       /\ resp'.deleted = Cardinality({i \in Ids : PastExpiry(i)})
       /\ resp'.errors = 0]_vars

\* A sweep without failure has just deleted one expired record and kept one
\* that is not expired.
C13_Witness ==
  /\ resp.op = "cleanup" /\ resp.status = 200
  /\ \A i \in Ids : resp.fails[i] = "none"
  /\ resp.deleted = 1 /\ resp.errors = 0
  /\ \E i \in Ids : Present(i) /\ meta[i][1].expiresAt # None
  /\ \E i \in Ids : ~Present(i) /\ content[i] = None

\* The listed keys whose handling met a failing store call or parse.
FailedKeys ==
  {i \in Ids : /\ Present(i)
               /\ \/ resp'.fails[i] \in {"get", "parse"}
                  \/ PastExpiry(i) /\ resp'.fails[i] \in {"delMeta", "delContent"}}

\* C14: a failure while the sweep handles one key adds one to errors and
\* does not end the sweep: every other expired record is deleted, and
\* deleted + errors is at most the number of keys listed.
C14_SweepIsolatesFailures ==
  [][SweepStep =>
       /\ resp'.errors = Cardinality(FailedKeys)
       /\ \A i \in Ids \ FailedKeys :
            PastExpiry(i) => (meta'[i] = None /\ content'[i] = None)
       /\ resp'.deleted + resp'.errors
            <= Cardinality({i \in Ids : Present(i)})]_vars

\* A sweep has failed on the first key and deleted the second one.
C14_Witness ==
  /\ resp.op = "cleanup" /\ resp.status = 200
  /\ resp.fails["a"] # "none" /\ resp.fails["b"] = "none"
  /\ resp.errors = 1 /\ resp.deleted = 1
  /\ meta["b"] = None /\ content["b"] = None

\* The state is the one a sweep without failure has left, and no expiresAt
\* has passed since.
AfterCleanSweep ==
  /\ resp.op = "cleanup" /\ resp.status = 200
  /\ \A i \in Ids : resp.fails[i] = "none"
  /\ \A i \in Ids :
       PastExpiry(i) => meta[i][1].expiresAt[1] < resp.at

\* C15: a sweep without failure that directly follows a sweep without
\* failure returns deleted = 0 and leaves the store unchanged; a sweep of a
\* store without metadata returns deleted = 0 and errors = 0.
C15_SweepIdempotent ==
  [][/\ (AfterCleanSweep /\ CleanSweepStep)
         => (resp'.deleted = 0 /\ meta' = meta /\ content' = content)
     /\ (SweepStep /\ \A i \in Ids : ~Present(i))
         => (resp'.deleted = 0 /\ resp'.errors = 0)]_vars

\* A sweep without failure has returned deleted = 0 and left a record with
\* an expiresAt stored.
C15_Witness ==
  /\ AfterCleanSweep
  /\ resp.deleted = 0 /\ now = resp.at
  /\ \E i \in Ids : Present(i) /\ meta[i][1].expiresAt # None

\* A /sub response whose subscription-userinfo header has been composed.
Merged == resp.op = "sub" /\ resp.status = 200 /\ DOMAIN inflight # {}

\* The custom overlay of the request produces a subscription-userinfo value.
CustomGiven == infoParts(inflight.subInfo) # <<>>

CustomNames ==
  {infoParts(inflight.subInfo)[i][1] : i \in 1..Len(infoParts(inflight.subInfo))}

\* C18: with a custom value, the merged header is the custom parts in their
\* order, followed by field=value for every field of the parsed upstream
\* header whose name is not a custom name, in the order of the upstream
\* header.
C18_CustomThenUpstreamInOrder ==
  (Merged /\ CustomGiven) =>
    resp.userinfo =
      Some(Join(infoParts(inflight.subInfo)
                  \o RenderEntries(
                       SelectSeq(parseUserInfo(inflight.originalUserInfo),
                                 LAMBDA e : e[1] \notin
                                              {<<n>> : n \in CustomNames})),
                <<";", " ">>))

\* The overlay is absent, or its upload, download and total are empty after
\* trimming and its expire is empty after trimming or not a date.
NoCustomValue ==
  \/ inflight.subInfo = None
  \/ /\ \A f \in {"upload", "download", "total"} :
          \/ inflight.subInfo[1][f] = None
          \/ Trim(inflight.subInfo[1][f][1]) = <<>>
     /\ \/ inflight.subInfo[1].expire = None
        \/ Trim(inflight.subInfo[1].expire[1]) \in {<<>>, <<"bad">>}

\* C19: without a custom value the response carries the upstream header
\* unchanged if the upstream sent one, and none if it did not.
C19_PassThroughIfSent ==
  (Merged /\ NoCustomValue) => resp.userinfo = inflight.originalUserInfo

\* C19 (amended): without a custom value the response carries the upstream
\* header unchanged if the upstream sent one that is not empty, and none if
\* the upstream sent none or an empty one.
C19_PassThroughIfNotEmpty ==
  (Merged /\ NoCustomValue) =>
    resp.userinfo = IF inflight.originalUserInfo \in {None, Some(<<>>)}
                    THEN None
                    ELSE inflight.originalUserInfo

\* The overlay holds nothing but an expire that is not a date, and the
\* response carries the upstream header, a value with "=", as it came.
C19_Witness ==
  /\ Merged
  /\ inflight.subInfo # None /\ inflight.subInfo[1].expire = Some(<<"bad">>)
  /\ NoCustomValue
  /\ inflight.originalUserInfo = Some(<<" ", "x", "=", "a", "=", "b">>)
  /\ resp.userinfo = inflight.originalUserInfo

\* The fields of a header: each segment between ";" split at its first "=",
\* name and value trimmed.
FirstEq(t) == CHOOSE i \in 1..Len(t) : t[i] = "=" /\ \A j \in 1..(i - 1) : t[j] # "="

FieldsOf(h) ==
  LET segs == Split(h, <<";">>)
      withEq == {t \in {Trim(segs[i]) : i \in 1..Len(segs)} :
                   \E k \in 1..Len(t) : t[k] = "="}
  IN {<<Trim(SubSeq(t, 1, FirstEq(t) - 1)),
        Trim(SubSeq(t, FirstEq(t) + 1, Len(t)))>> : t \in withEq}

\* C20: every upstream field, its value taken from the first "=" of its
\* segment on, is in the merged header with that value unless a custom
\* field has its name.
C20_UpstreamFieldsKept ==
  (Merged /\ inflight.originalUserInfo # None) =>
    \A f \in FieldsOf(inflight.originalUserInfo[1]) :
      (/\ f[1] # <<>> /\ f[2] # <<>>
       /\ f[1] \notin {<<n>> : n \in CustomNames}
       /\ \A g \in FieldsOf(inflight.originalUserInfo[1]) :
            g[1] = f[1] => g = f)
      => /\ resp.userinfo # None
         /\ f \in FieldsOf(resp.userinfo[1])

\* The overlay of the request has a name that is not empty after trimming.
NameGiven ==
  /\ inflight.subInfo # None
  /\ inflight.subInfo[1].name \notin {None, Some(NotAString)}
  /\ \E i \in 1..Len(inflight.subInfo[1].name[1]) :
       inflight.subInfo[1].name[1][i] # " "

\* The content-disposition built from the name of the overlay.
BuiltFromName ==
  Some(<<"attachment", ";", " ", "filename*", "=", "UTF-8''">>
         \o EncodeURIComponent(Trim(inflight.subInfo[1].name[1])))

\* C21: the content-disposition of a successful /sub response is the one
\* built from the name of the overlay if there is one, else the one of the
\* upstream if it sent one, else absent; the upstream's
\* profile-update-interval is passed on as it came.
C21_NameWinsElseUpstream ==
  Merged =>
    /\ resp.disposition = IF NameGiven THEN BuiltFromName
                          ELSE inflight.contentDisposition
    /\ resp.interval = inflight.profileUpdateInterval

\* C21 (amended): as above, where an upstream header with an empty value
\* counts as not sent.
C21_NameWinsElseNonEmptyUpstream ==
  Merged =>
    /\ resp.disposition =
         IF NameGiven THEN BuiltFromName
         ELSE IF inflight.contentDisposition = Some(<<>>) THEN None
         ELSE inflight.contentDisposition
    /\ resp.interval =
         IF inflight.profileUpdateInterval = Some(<<>>) THEN None
         ELSE inflight.profileUpdateInterval

\* The overlay has a name, the upstream sent both headers, and the response
\* carries the name of the overlay and the interval of the upstream.
C21_Witness ==
  /\ Merged
  /\ NameGiven
  /\ inflight.contentDisposition \notin {None, Some(<<>>)}
  /\ resp.disposition = BuiltFromName
  /\ resp.disposition # inflight.contentDisposition
  /\ resp.interval = Some(<<"2", "4">>)

\* buildSubscriptionHeaders has been called on the overlay of the request.
Built == resp.op = "build"

\* The named field of the overlay is a string that is not empty after
\* trimming.
NonBlank(f) ==
  /\ inflight.subInfo # None
  /\ inflight.subInfo[1][f] \notin {None, Some(NotAString)}
  /\ \E i \in 1..Len(inflight.subInfo[1][f][1]) :
       inflight.subInfo[1][f][1][i] # " "

\* The part the claim gives a field that is included.
PartWanted(f) ==
  IF f = "expire"
  THEN <<"expire", "=",
         ToString(ExpireSeconds(Trim(inflight.subInfo[1].expire[1]))[1])>>
  ELSE <<f, "=", parseSize(inflight.subInfo[1][f][1])>>

PartsWanted ==
  LET incl == SelectSeq(<<"upload", "download", "total", "expire">>,
                 LAMBDA f : /\ NonBlank(f)
                            /\ f = "expire" =>
                                 ExpireSeconds(
                                   Trim(inflight.subInfo[1].expire[1])) # None)
  IN [i \in 1..Len(incl) |-> PartWanted(incl[i])]

\* C22: the subscription-userinfo value has a part for each of upload,
\* download, total, expire exactly when that field is not empty after
\* trimming (and expire is a date), in that order, joined with "; ", the
\* value of a size part being parseSize of the field; there is no such
\* header when there is no part.
C22_PartsIffGiven ==
  Built =>
    resp.userinfo = IF PartsWanted = <<>> THEN None
                    ELSE Some(Join(PartsWanted, <<";", " ">>))

\* C23: content-disposition is set exactly when the name is not empty after
\* trimming, whatever the other fields are: a name alone gives
\* content-disposition without subscription-userinfo, traffic fields alone
\* give subscription-userinfo without content-disposition, no overlay gives
\* neither.
C23_NameIndependent ==
  Built =>
    /\ resp.disposition # None <=> NonBlank("name")
    /\ inflight.subInfo = None
         => (resp.userinfo = None /\ resp.disposition = None)
    /\ (NonBlank("name")
          /\ \A f \in {"upload", "download", "total", "expire"} : ~NonBlank(f))
         => resp.userinfo = None
    /\ (~NonBlank("name")
          /\ \E f \in {"upload", "download", "total"} : NonBlank(f))
         => resp.userinfo # None

\* C24: buildSubscriptionHeaders never throws, and with an expire that is
\* not empty and not a date it returns what it returns for the same overlay
\* without the expire field.
C24_NeverThrowsExpireOmitted ==
  Built =>
    /\ resp.status = 200
    /\ (NonBlank("expire")
          /\ ExpireSeconds(Trim(inflight.subInfo[1].expire[1])) = None)
         => LET without ==
                  buildSubscriptionHeaders(
                    Some([inflight.subInfo[1] EXCEPT !.expire = None]))
            IN /\ resp.userinfo = without.userinfo
               /\ resp.disposition = without.disposition

\* The reference of the size parser: trim, match the whole as a decimal
\* number and an optional unit, multiply, floor; 0 when there is no match.
RefSize(str) ==
  LET t == Trim(str)
      num == TakeWhile(t, Digits \cup {"."})
      unit == TrimLeft(SubSeq(t, Len(num) + 1, Len(t)))
      decimal == /\ \E i \in 1..Len(num) : num[i] \in Digits
                 /\ Cardinality({i \in 1..Len(num) : num[i] = "."}) <= 1
      unitOk == unit = <<>> \/ (Len(unit) = 1 /\ unit[1] \in UnitTokens)
  IN IF decimal /\ unitOk
     THEN ToString((ParseFloat(num)[1][1]
                      * (IF unit = <<>> THEN 1 ELSE UnitFactor(unit[1])))
                   \div ParseFloat(num)[1][2])
     ELSE "0"

\* C25: parseSize returns what the reference returns, so a string gives what
\* its trimmed form gives and a string that does not match gives 0.
C25_ParseSizeIsReference ==
  resp.op = "size" =>
    /\ resp.value = RefSize(inflight.s)
    /\ resp.value = parseSize(Trim(inflight.s))

\* Worker p performs the last store call of a read that got the content.
ReadEndBy(p) ==
  inflight[p].pc \in {"rdBurnDelContent", "rdPutMeta"} /\ inflight'[p].pc = "idle"

\* C26: each read checks the metadata its own get returned and, having got
\* the content, returns it; so two reads of a record that is burnAfterRead or
\* has one download left can both pass the checks before either writes or
\* deletes, and both return the content.
C26_ChecksOnOwnGet ==
  [][\A p \in Procs :
       ReadEndBy(p) =>
         /\ ~Expired(inflight[p].m, now)
         /\ ~(TruthyNum(inflight[p].m.maxDownloads)
              /\ inflight[p].seen >= inflight[p].m.maxDownloads[1])
         /\ resp'.status = 200
         /\ resp'.body = inflight[p].c]_vars

\* Both workers have passed the checks and got the content of the record,
\* which is burnAfterRead or has one download left, and neither has written
\* or deleted yet.
C26_Witness ==
  /\ meta["a"] # None
  /\ \/ meta["a"][1].burnAfterRead
     \/ /\ meta["a"][1].maxDownloads = Some(1)
        /\ meta["a"][1].downloadCount = 0
  /\ \A p \in Procs :
       /\ inflight[p].pc \in {"rdBurnDelMeta", "rdPutMeta"}
       /\ inflight[p].m = Increment(meta["a"][1])
       /\ content["a"] = Some(inflight[p].c)

\* C30: under any interleaving of the store calls of uploads and reads,
\* metadata never exists without its content: if meta:{id} exists then
\* content:{id} exists.
C30_MetaImpliesContent ==
  \A id \in Ids : meta[id] # None => content[id] # None

\* The limit check as the specification words it: maxDownloads is set and
\* downloadCount has reached it.
AtLimit(id) ==
  /\ meta[id][1].maxDownloads # None
  /\ meta[id][1].downloadCount >= meta[id][1].maxDownloads[1]

StoreUnchanged == meta' = meta /\ content' = content

\* C29: a read applies its checks in the order exists, expired, limit
\* reached, content missing, and only the first failing one takes effect: an
\* expired record is deleted and reported Gone(expired) whatever its count;
\* an unexpired record at its limit is reported Gone(limit reached) and left
\* intact whether or not its content exists; a missing content is reported
\* NotFound only below the limit; the checks after the failing one leave the
\* store alone.
C29_FirstFailingCheckOnly ==
  [][ReadStepOf("a") =>
       IF ~Present("a")
       THEN resp'.status = 404 /\ resp'.reason = "not found" /\ StoreUnchanged
       ELSE IF PastExpiry("a")
       THEN /\ resp'.status = 410 /\ resp'.reason = "expired"
            /\ meta'["a"] = None /\ content'["a"] = None
       ELSE IF AtLimit("a")
       THEN resp'.status = 410 /\ resp'.reason = "limit" /\ StoreUnchanged
       ELSE IF NoContent(content["a"])
       THEN resp'.status = 404 /\ resp'.reason = "no content" /\ StoreUnchanged
       ELSE resp'.status \in {200, 502}]_vars

\* The header is 'Bearer <ADMIN_PASSWORD>' for the configured password.
BearerOf(password) == Some(<<"Bearer", " ">> \o password[1])

AdminOps == {"records", "delete", "batch-delete", "download", "stats", "cleanup"}

\* C28: every admin operation called without the header
\* 'Bearer <ADMIN_PASSWORD>' answers 401 and leaves the store unchanged, also
\* after a successful login; the login endpoint itself changes nothing in
\* the store.
C28_NoBearerNoAccess ==
  [][/\ \A h \in AuthHeaders :
          (AdminCall(h) /\ (inflight.ADMIN_PASSWORD = None
                              \/ h # BearerOf(inflight.ADMIN_PASSWORD)))
            => (resp'.op \in AdminOps /\ resp'.status = 401 /\ StoreUnchanged)
     /\ (OpStep /\ resp'.op = "login") => StoreUnchanged]_vars

\* The login endpoint has answered success and a delete called afterwards
\* without the credential was refused, the record still being there.
C28_Witness ==
  /\ inflight.login = 200
  /\ resp.op = "delete" /\ resp.status = 401
  /\ meta[resp.id] # None /\ content[resp.id] # None

\* C27: with the gets of meta:{id} and content:{id} served through a cache
\* that may return a value up to the TTL old, reads made one after another
\* still follow the lifecycle rules: a read delivers the content only if
\* the stored record exists (a burnAfterRead record already delivered, or a
\* record reported expired, is gone), is not expired and has not reached
\* its maxDownloads.
C27_StaleGetsKeepRules ==
  [][(ReadStepOf("a") /\ resp'.status = 200) =>
       /\ Present("a")
       /\ ~PastExpiry("a")
       /\ ~LimitReached(meta["a"][1])]_vars

\* The string is made of digits and dots only.
DigitsAndDots(str) ==
  str # <<>> /\ \A i \in 1..Len(str) : str[i] \in Digits \cup {"."}

\* A decimal number: at least one digit and at most one dot.
ValidDecimal(str) ==
  /\ \E i \in 1..Len(str) : str[i] \in Digits
  /\ Cardinality({i \in 1..Len(str) : str[i] = "."}) <= 1

\* C37: parseSize returns a non-negative integer for every string, never a
\* non-number, and 0 for a string of digits and dots that is not a decimal
\* number.
C37_ParseSizeIsInteger ==
  resp.op = "size" =>
    /\ resp.value # "NaN"
    /\ (DigitsAndDots(inflight.s) /\ ~ValidDecimal(inflight.s))
         => resp.value = "0"

\* The names of the fields of a header, one for each segment that holds "=",
\* in the order of the segments.
NamesOf(h) ==
  LET segs == Split(h, <<";">>)
      trimmed == [i \in 1..Len(segs) |-> Trim(segs[i])]
      withEq == SelectSeq(trimmed, LAMBDA t : \E k \in 1..Len(t) : t[k] = "=")
  IN [i \in 1..Len(withEq) |-> Trim(SubSeq(withEq[i], 1, FirstEq(withEq[i]) - 1))]

NoRepeatedName(h) ==
  LET names == NamesOf(h)
  IN Cardinality({names[i] : i \in 1..Len(names)}) = Len(names)

\* C36: in every subscription-userinfo header of a /sub response each field
\* name occurs at most once, whatever the overlay and the upstream header.
C36_NamesUnique ==
  (Merged /\ resp.userinfo # None) => NoRepeatedName(resp.userinfo[1])

\* C36 (amended): when the overlay produces a custom value, each field name
\* occurs at most once in the merged header, also when the upstream header
\* repeats a name or repeats a name of the overlay.
C36_NamesUniqueIfCustom ==
  (Merged /\ CustomGiven) =>
    resp.userinfo # None /\ NoRepeatedName(resp.userinfo[1])

\* The overlay sets total, and the upstream header holds total and holds x
\* twice; the merged header holds total and x.
C36_Witness ==
  /\ Merged /\ CustomGiven
  /\ <<"total">> \in {<<n>> : n \in CustomNames}
  /\ inflight.originalUserInfo # None
  /\ ~NoRepeatedName(inflight.originalUserInfo[1])
  /\ \E i \in 1..Len(NamesOf(inflight.originalUserInfo[1])) :
       NamesOf(inflight.originalUserInfo[1])[i] = <<"total">>
  /\ resp.userinfo # None
  /\ \E i, j \in 1..Len(NamesOf(resp.userinfo[1])) :
       /\ NamesOf(resp.userinfo[1])[i] = <<"total">>
       /\ NamesOf(resp.userinfo[1])[j] = <<"x">>

LookOps == {"metadata", "records", "stats", "download"}

\* C35: metadata lookup, admin records, admin stats and admin download leave
\* the store as it was: no downloadCount changes, no burnAfterRead or
\* expired record is deleted, no key is written.
C35_LookupsReadOnly ==
  [][(OpStep /\ resp'.op \in LookOps) => StoreUnchanged]_vars

\* An admin download has returned the content of a burnAfterRead record
\* that is past its expiry, and the record is still stored, never counted.
C35_Witness ==
  /\ resp.op = "download" /\ resp.status = 200 /\ resp.body = "data"
  /\ Present(resp.id) /\ PastExpiry(resp.id)
  /\ meta[resp.id][1].burnAfterRead
  /\ meta[resp.id][1].downloadCount = 0
  /\ content[resp.id] = Some("data")

\* The record is expired, or what a sweep that failed part-way left of it:
\* its content without its metadata.
LeftToSweep(id) ==
  \/ PastExpiry(id)
  \/ meta[id] = None /\ content[id] # None

\* C34: once store calls have stopped failing, repeated sweeps eventually
\* leave neither meta:{id} nor content:{id} of an expired record, also of
\* one whose deletion failed part-way in an earlier sweep.
C34_SweepsEventuallyRemove ==
  \A id \in Ids :
    (~inflight.failing /\ LeftToSweep(id))
      ~> (meta[id] = None /\ content[id] = None)

\* C33: an upload that succeeds, under a custom slug or under a generated
\* id, writes meta:{id} and content:{id} only where neither existed, and
\* touches no other record.
C33_UploadWritesFreshKeys ==
  [][\A id \in Ids :
       (OpStep /\ resp'.op = "upload" /\ resp'.status = 200 /\ resp'.id = id)
       => /\ meta[id] = None /\ content[id] = None
          /\ \A j \in Ids \ {id} :
               meta'[j] = meta[j] /\ content'[j] = content[j]]_vars

\* No request is being served.
Quiescent == \A p \in Procs : inflight[p].pc = "idle"

\* The stored content and the stored metadata of id are those of one upload.
FromOneUpload(id) ==
  /\ content[id] # None
  /\ \E r \in RequestsSlug :
       /\ meta[id] = Some(MetaOf(r, now))
       /\ content[id] = Some(StoredContent(r.transport, r.content))

\* Worker p ends an upload with success.
UploadSucceedsBy(p) ==
  inflight[p].pc = "upPutMeta" /\ inflight'[p].pc = "idle"

\* C32: of two concurrent uploads with the same customSlug at most one
\* returns success (no upload succeeds on an id whose metadata another
\* upload has written meanwhile), and in every quiescent state the stored
\* content and the stored metadata come from the same upload.
C32_OneWinnerOneRecord ==
  /\ [](Quiescent /\ meta["a"] # None => FromOneUpload("a"))
  /\ [][\A p \in Procs : UploadSucceedsBy(p) => meta[inflight[p].id] = None]_vars

\* A read answers in the step in which it starts (no worker moves on).
ReadStartsAndEnds ==
  resp'.seq # resp.seq /\ resp'.op \in Routes /\ inflight' = inflight

\* C31: a deleted record stays deleted: meta:{id} that is absent comes into
\* being only by the put of an upload, never by a read that was in
\* progress, and a read that finds no metadata answers 404.
C31_DeletedStaysDeleted ==
  [][/\ (meta["a"] = None /\ meta'["a"] # None)
          => \E p \in Procs : UploadSucceedsBy(p)
     /\ (ReadStartsAndEnds /\ meta["a"] = None) => resp'.status = 404]_vars

====
